---- MODULE Spec2Model ----
(***************************************************************************)
(* A model of quadtree.h: a point quadtree with a bump-allocated heap.     *)
(*                                                                         *)
(* Pointers are natural numbers, NULL is 0.  malloc returns a fresh        *)
(* address.  A QuadTree struct lives in heap.nodes, a QT_Object array in   *)
(* heap.bufs.  Every block remembers whether it is live and how often it   *)
(* was passed to free.  Coordinates are exact dyadic numbers: the float    *)
(* value v is the integer v * Scale, and every input is chosen such that   *)
(* the ten halvings of QT_Subdivide stay exact, as they are in binary      *)
(* floating point for coordinates of this magnitude.                       *)
(***************************************************************************)
EXTENDS Integers, Sequences, FiniteSets, TLC

VARIABLES heap, tree, cfg, calls, last, geo, run

vars == <<heap, tree, cfg, calls, last, geo, run>>

(* quadtree.h:13 *)
QT_MAX_DEPTH == 10

(* number of QT_Insert calls on the trees of the generic configurations *)
MaxInserts == 3

NULL == 0

(* one model unit is 1/Scale: a node of depth QT_MAX_DEPTH + 1 under a   *)
(* root of half-extent 1 has half-extent 1 unit                          *)
Scale == 2 ^ QT_MAX_DEPTH

Vec2(x, y) == [x |-> x, y |-> y]

(* the float vector (x, y) *)
V(x, y) == Vec2(x * Scale, y * Scale)

Boundary(pos, half_dim) == [pos |-> pos, half_dim |-> half_dim]

QT_Object(data, pos) == [data |-> data, pos |-> pos]

(* the content of an array slot that was never written *)
Uninit == QT_Object(0 - 1, Vec2(0, 0))

fabs(v) == IF v < 0 THEN 0 - v ELSE v

(* statement order: the value of the statement before is computed first,   *)
(* then the rest; the result is that of the rest                           *)
After(before, rest) == CASE <<before>> # <<>> -> rest

(***************************************************************************)
(* Geometry                                                                *)
(***************************************************************************)
(* the test of the y interval is missing *)
BoundaryContainsXOnly(b, pos) ==
  pos.x >= (b.pos.x - b.half_dim.x) /\ pos.x <= (b.pos.x + b.half_dim.x)

BoundaryContainsStrict(b, pos) ==
  (pos.x > (b.pos.x - b.half_dim.x) /\ pos.x < (b.pos.x + b.half_dim.x))
  /\ (pos.y > (b.pos.y - b.half_dim.y) /\ pos.y < (b.pos.y + b.half_dim.y))

BoundaryContains(b, pos) ==
  (pos.x >= (b.pos.x - b.half_dim.x) /\ pos.x <= (b.pos.x + b.half_dim.x))
  /\ (pos.y >= (b.pos.y - b.half_dim.y) /\ pos.y <= (b.pos.y + b.half_dim.y))

BoundaryIntersectsThisOnly(this, that) ==
  IF fabs(this.pos.x - that.pos.x) > (this.half_dim.x + this.half_dim.x)
  THEN FALSE
  ELSE IF fabs(this.pos.y - that.pos.y) > (this.half_dim.y + that.half_dim.y)
  THEN FALSE
  ELSE TRUE

BoundaryIntersectsOpen(this, that) ==
  IF fabs(this.pos.x - that.pos.x) >= (this.half_dim.x + that.half_dim.x)
  THEN FALSE
  ELSE IF fabs(this.pos.y - that.pos.y) >= (this.half_dim.y + that.half_dim.y)
  THEN FALSE
  ELSE TRUE

BoundaryIntersects(this, that) ==
  IF fabs(this.pos.x - that.pos.x) > (this.half_dim.x + that.half_dim.x)
  THEN FALSE
  ELSE IF fabs(this.pos.y - that.pos.y) > (this.half_dim.y + that.half_dim.y)
  THEN FALSE
  ELSE TRUE

(***************************************************************************)
(* The heap                                                                *)
(***************************************************************************)
EmptyHeap ==
  [nodes |-> <<>>, bufs |-> <<>>, next |-> 1, faults |-> {}, trace |-> <<>>,
   splits |-> <<>>, stack |-> <<>>, max_insert |-> 0, max_stack |-> 0,
   activations |-> 0]

(* malloc(n * sizeof(QT_Object)): a fresh array of n unwritten slots *)
MallocObjects(h, n) ==
  [h |-> [h EXCEPT !.bufs = @ @@ (h.next :>
                      [live |-> TRUE, frees |-> 0, size |-> n,
                       elems |-> [i \in 0 .. (n - 1) |-> Uninit]]),
                   !.next = @ + 1],
   ptr |-> h.next]

(* free(p) of an object array; free(NULL) does nothing *)
FreeObjects(h, p) ==
  IF p = NULL THEN h
  ELSE [h EXCEPT !.bufs[p].live = FALSE,
                 !.bufs[p].frees = @ + 1,
                 !.faults = IF h.bufs[p].live THEN @
                            ELSE @ \cup {"double free"}]

(* free(p) of a QuadTree struct *)
FreeNode(h, p) ==
  IF p = NULL THEN h
  ELSE [h EXCEPT !.nodes[p].live = FALSE,
                 !.nodes[p].frees = @ + 1,
                 !.faults = IF h.nodes[p].live THEN @
                            ELSE @ \cup {"double free"}]

(* realloc(p, n * sizeof(QT_Object)): malloc when p is NULL, otherwise the *)
(* array moves to a fresh block, keeps its first min(old, n) slots, and    *)
(* the old block is released                                               *)
ReallocObjects(h, p, n) ==
  IF p = NULL THEN MallocObjects(h, n)
  ELSE LET old == h.bufs[p]
           m   == MallocObjects(h, n)
           h1  == [m.h EXCEPT !.bufs[m.ptr].elems =
                     [i \in 0 .. (n - 1) |->
                        IF i < old.size THEN old.elems[i] ELSE Uninit],
                     !.faults = IF old.live THEN @
                                ELSE @ \cup {"use after free"}]
       IN [h |-> FreeObjects(h1, p), ptr |-> m.ptr]

(* a snapshot of node qt at the moment a branch of QT_Insert is taken *)
Log(h, ev, qt) ==
  [h EXCEPT !.trace = Append(@,
     [ev |-> ev, node |-> qt,
      depth |-> h.nodes[qt].depth,
      leaf |-> h.nodes[qt].branches[1] = NULL,
      obj_count |-> h.nodes[qt].obj_count,
      capacity |-> h.nodes[qt].capacity,
      objects |-> h.nodes[qt].objects])]

(* the objects node qt holds: objects[0 .. obj_count - 1] *)
RECURSIVE HeldFrom(_, _, _)
HeldFrom(h, qt, i) ==
  IF i < h.nodes[qt].obj_count
  THEN <<h.bufs[h.nodes[qt].objects].elems[i]>> \o HeldFrom(h, qt, i + 1)
  ELSE <<>>

Held(h, qt) == HeldFrom(h, qt, 0)

(* the call stack of one public call: a frame is pushed when QT_Insert or  *)
(* QT_Subdivide is entered and popped when it returns; the record keeps    *)
(* the largest number of QT_Insert frames and of frames of both functions  *)
(* that were on the stack together, and the number of QT_Insert calls      *)
CountFrames(stack, fn) ==
  Cardinality({i \in 1 .. Len(stack) : stack[i] = fn})

Enter(h, fn) ==
  LET st == Append(h.stack, fn)
      ni == CountFrames(st, "QT_Insert")
  IN [h EXCEPT !.stack = st,
               !.max_insert = IF ni > @ THEN ni ELSE @,
               !.max_stack = IF Len(st) > @ THEN Len(st) ELSE @,
               !.activations = IF fn = "QT_Insert" THEN @ + 1 ELSE @]

Leave(h) ==
  [h EXCEPT !.stack = SubSeq(@, 1, Len(@) - 1)]

(* the heap as a public call finds it: nothing recorded, no frame *)
AtCall(h) ==
  [h EXCEPT !.trace = <<>>, !.splits = <<>>, !.stack = <<>>,
            !.max_insert = 0, !.max_stack = 0, !.activations = 0]

(***************************************************************************)
(* QT_New, QT_IsLeaf                                                       *)
(***************************************************************************)
(* the slot-clearing loop stops one short: the last slot keeps whatever    *)
(* the allocation held, here the node's own address                        *)
QT_NewLoopShort(h, b, capacity) ==
  LET qt == h.next
      h1 == [h EXCEPT !.nodes = @ @@ (qt :>
                         [live |-> TRUE, frees |-> 0, boundary |-> b,
                          objects |-> NULL, capacity |-> 0,
                          obj_count |-> 0, depth |-> 0,
                          branches |-> <<NULL, NULL, NULL, qt>>]),
                      !.next = @ + 1]
      m  == MallocObjects(h1, capacity)
  IN [h |-> [m.h EXCEPT !.nodes[qt].objects = m.ptr,
                        !.nodes[qt].capacity = capacity,
                        !.nodes[qt].depth = 1,
                        !.nodes[qt].obj_count = 0],
      ptr |-> qt]

QT_New(h, b, capacity) ==
  LET qt == h.next
      h1 == [h EXCEPT !.nodes = @ @@ (qt :>
                         [live |-> TRUE, frees |-> 0, boundary |-> b,
                          objects |-> NULL, capacity |-> 0,
                          obj_count |-> 0, depth |-> 0,
                          branches |-> <<NULL, NULL, NULL, NULL>>]),
                      !.next = @ + 1]
      m  == MallocObjects(h1, capacity)
  IN [h |-> [m.h EXCEPT !.nodes[qt].objects = m.ptr,
                        !.nodes[qt].capacity = capacity,
                        !.nodes[qt].depth = 1,
                        !.nodes[qt].obj_count = 0],
      ptr |-> qt]

(* branches[0] of the source is branches[1] here *)
QT_IsLeaf(h, qt) == h.nodes[qt].branches[1] = NULL

(***************************************************************************)
(* QT_Subdivide and QT_Insert                                              *)
(***************************************************************************)
RECURSIVE QT_Insert(_, _, _)
RECURSIVE PushDown(_, _, _)
RECURSIVE QT_Query(_, _, _, _)

(* the increment of obj_count is missing *)
StoreObjectNoIncrement(h, qt, obj) ==
  LET p   == h.nodes[qt].objects
      idx == h.nodes[qt].obj_count
  IN IF p = NULL
     THEN [h EXCEPT !.faults = @ \cup {"null write"}]
     ELSE IF idx >= h.bufs[p].size
     THEN [h EXCEPT !.faults = @ \cup {"out of bounds write"}]
     ELSE [h EXCEPT !.bufs[p].elems[idx] = obj]

(* qt->objects[qt->obj_count++] = *obj *)
StoreObject(h, qt, obj) ==
  LET n   == h.nodes[qt]
      p   == n.objects
      idx == n.obj_count
      h1  == IF p = NULL
             THEN [h EXCEPT !.faults = @ \cup {"null write"}]
             ELSE IF idx >= h.bufs[p].size
             THEN [h EXCEPT !.faults = @ \cup {"out of bounds write"}]
             ELSE [h EXCEPT !.bufs[p].elems[idx] = obj,
                            !.faults = IF h.bufs[p].live THEN @
                                       ELSE @ \cup {"use after free"}]
  IN [h1 EXCEPT !.nodes[qt].obj_count = idx + 1]

(* the inner loop of the push down, its four rounds written out: offer    *)
(* the object to branches 0 .. 3 in order and stop at the first branch     *)
(* that takes it                                                           *)
(* one round of a loop over the branches: when no earlier branch took the  *)
(* object, QT_Insert(qt->branches[i], obj)                                 *)
OfferBranch(r, qt, i, obj) ==
  IF r.ret THEN r
  ELSE QT_Insert(r.h, r.h.nodes[qt].branches[i + 1], obj)

(* the break is missing: the object is offered to all four branches *)
PushDownObjectNoBreak(h, qt, obj) ==
  [QT_Insert(
     QT_Insert(
       QT_Insert(
         QT_Insert(h, h.nodes[qt].branches[1], obj).h,
         h.nodes[qt].branches[2], obj).h,
       h.nodes[qt].branches[3], obj).h,
     h.nodes[qt].branches[4], obj)
   EXCEPT !.ret = TRUE]

(* the inner loop of the push down, its four rounds written out: offer    *)
(* the object to branches 0 .. 3 in order and stop at the first branch     *)
(* that takes it                                                           *)
PushDownObject(h, qt, obj) ==
  OfferBranch(
    OfferBranch(
      OfferBranch(
        OfferBranch([h |-> h, ret |-> FALSE], qt, 0, obj),
        qt, 1, obj),
      qt, 2, obj),
    qt, 3, obj)

PushDownNothing(h, qt, objIdx) == h

(* the outer loop of the push down, from object objIdx on *)
PushDown(h, qt, objIdx) ==
  IF objIdx < h.nodes[qt].obj_count
  THEN PushDown(
         PushDownObject(h, qt,
                        h.bufs[h.nodes[qt].objects].elems[objIdx]).h,
         qt, objIdx + 1)
  ELSE h

(* the south-west and north-east branches land in each other's slot *)
NewBranchSwapped(h, qt, i, b) ==
  LET c == QT_New(h, b, h.nodes[qt].capacity)
      j == IF i = 1 THEN 2 ELSE IF i = 2 THEN 1 ELSE i
  IN [c.h EXCEPT !.nodes[qt].branches[j + 1] = c.ptr,
                 !.nodes[c.ptr].depth = h.nodes[qt].depth + 1]

(* qt->branches[i] = QT_New(b, qt->capacity);                              *)
(* qt->branches[i]->depth = qt->depth + 1;                                 *)
NewBranch(h, qt, i, b) ==
  LET c == QT_New(h, b, h.nodes[qt].capacity)
  IN [c.h EXCEPT !.nodes[qt].branches[i + 1] = c.ptr,
                 !.nodes[c.ptr].depth = h.nodes[qt].depth + 1]

(* lines 84-107: the four boundaries and the four new branches *)
CreateBranches(h, qt) ==
  LET n                 == h.nodes[qt]
      child_half_width  == n.boundary.half_dim.x \div 2
      child_half_height == n.boundary.half_dim.y \div 2
      b_northwest == Boundary(Vec2(n.boundary.pos.x - child_half_width,
                                   n.boundary.pos.y - child_half_height),
                              Vec2(child_half_width, child_half_height))
      b_southwest == Boundary(Vec2(n.boundary.pos.x - child_half_width,
                                   n.boundary.pos.y + child_half_height),
                              Vec2(child_half_width, child_half_height))
      b_northeast == Boundary(Vec2(n.boundary.pos.x + child_half_width,
                                   n.boundary.pos.y - child_half_height),
                              Vec2(child_half_width, child_half_height))
      b_southeast == Boundary(Vec2(n.boundary.pos.x + child_half_width,
                                   n.boundary.pos.y + child_half_height),
                              Vec2(child_half_width, child_half_height))
      h0 == NewBranch(h, qt, 0, b_northwest)
      h1 == NewBranch(h0, qt, 1, b_southwest)
      h2 == NewBranch(h1, qt, 2, b_northeast)
  IN NewBranch(h2, qt, 3, b_southeast)

(* qt->obj_count = 0 *)
ResetCount(h, qt) ==
  [h EXCEPT !.nodes[qt].obj_count = 0]

(* qt->objects = NULL *)
ForgetObjects(h, qt) ==
  [h EXCEPT !.nodes[qt].objects = NULL]

(* what one subdivision did: the objects the node held before, what each  *)
(* new branch holds after the push down, and what a query of the node's    *)
(* own boundary returns before and after                                   *)
SplitKid(h, kid) ==
  [boundary |-> h.nodes[kid].boundary, objs |-> Held(h, kid)]

LogSplit(before, after, qt) ==
  [after EXCEPT !.splits = Append(@,
     [node     |-> qt,
      boundary |-> before.nodes[qt].boundary,
      before   |-> Held(before, qt),
      kids     |-> <<SplitKid(after, after.nodes[qt].branches[1]),
                     SplitKid(after, after.nodes[qt].branches[2]),
                     SplitKid(after, after.nodes[qt].branches[3]),
                     SplitKid(after, after.nodes[qt].branches[4])>>,
      q_before |-> QT_Query(before, qt, before.nodes[qt].boundary,
                            [resultCount |-> 0, resultArray |-> <<>>]).res,
      q_after  |-> QT_Query(after, qt, before.nodes[qt].boundary,
                            [resultCount |-> 0, resultArray |-> <<>>]).res])]

QT_Subdivide(h_in, qt) ==
  LET h  == Enter(h_in, "QT_Subdivide")
      h3 == CreateBranches(h, qt)
      h4 == PushDown(h3, qt, 0)
      h5 == ResetCount(h4, qt)
      h6 == FreeObjects(h5, h5.nodes[qt].objects)
      h7 == ForgetObjects(h6, qt)
  IN Leave(LogSplit(h, h7, qt))

(* the loop after QT_Subdivide in QT_Insert, its four rounds written out:  *)
(* return true at the first branch that takes the object                   *)
InsertBranches(h, qt, obj) ==
  OfferBranch(
    OfferBranch(
      OfferBranch(
        OfferBranch([h |-> h, ret |-> FALSE], qt, 0, obj),
        qt, 1, obj),
      qt, 2, obj),
    qt, 3, obj)

(* the leaf test is missing *)
MaySubdivideAnyNode(h, qt) ==
  h.nodes[qt].depth <= QT_MAX_DEPTH

MaySubdivideOneDeeper(h, qt) ==
  QT_IsLeaf(h, qt) /\ (h.nodes[qt].depth <= QT_MAX_DEPTH + 1)

(* the condition of the subdivision branch *)
MaySubdivide(h, qt) ==
  QT_IsLeaf(h, qt) /\ (h.nodes[qt].depth <= QT_MAX_DEPTH)

(* the buffer grows by one slot instead of doubling *)
GrowByOneAndStore(h, qt, obj) ==
  LET h1 == [h EXCEPT !.nodes[qt].capacity = @ + 1]
      r  == ReallocObjects(h1, h1.nodes[qt].objects, h1.nodes[qt].capacity)
      h2 == [r.h EXCEPT !.nodes[qt].objects = r.ptr]
  IN StoreObject(h2, qt, obj)

(* qt->capacity *= 2; qt->objects = realloc(...); then the append *)
GrowAndStore(h, qt, obj) ==
  LET h1 == [h EXCEPT !.nodes[qt].capacity = @ * 2]
      r  == ReallocObjects(h1, h1.nodes[qt].objects, h1.nodes[qt].capacity)
      h2 == [r.h EXCEPT !.nodes[qt].objects = r.ptr]
  IN StoreObject(h2, qt, obj)

(* lines 141-152: reached when no branch took the object, or none was      *)
(* asked                                                                   *)
GrowUnlessTaken(s, qt, obj) ==
  IF s.ret
  THEN s
  ELSE [h |-> GrowAndStore(Log(s.h, "grow", qt), qt, obj), ret |-> TRUE]

QT_Insert(h_in, qt, obj) ==
  LET h == Enter(h_in, "QT_Insert")
      n == h.nodes[qt]
  IN [(IF ~BoundaryContains(n.boundary, obj.pos)
       THEN [h |-> h, ret |-> FALSE]
       ELSE IF n.obj_count < n.capacity /\ n.objects # NULL
       THEN [h |-> StoreObject(Log(h, "store", qt), qt, obj), ret |-> TRUE]
       ELSE GrowUnlessTaken(
              IF MaySubdivide(h, qt)
              THEN InsertBranches(
                     QT_Subdivide(Log(h, "subdivide", qt), qt), qt, obj)
              ELSE [h |-> h, ret |-> FALSE],
              qt, obj))
      EXCEPT !.h = Leave(@)]

(***************************************************************************)
(* QT_Query                                                                *)
(***************************************************************************)
RECURSIVE ScanObjects(_, _, _, _, _)

(* the caller's result area: the count and the array, which the source    *)
(* never bounds                                                           *)
Results(resultCount, resultArray) ==
  [resultCount |-> resultCount, resultArray |-> resultArray]

(* the memcpy into resultArray at index resultCount, then the increment *)
AppendResult(res, obj) ==
  Results(res.resultCount + 1,
          [i \in 1 .. (IF res.resultCount + 1 > Len(res.resultArray)
                       THEN res.resultCount + 1
                       ELSE Len(res.resultArray)) |->
             IF i = res.resultCount + 1 THEN obj
             ELSE IF i <= Len(res.resultArray) THEN res.resultArray[i]
             ELSE Uninit])

(* the scan of the node's own objects, from index i on *)
ScanObjects(h, qt, query, res, i) ==
  IF i < h.nodes[qt].obj_count
  THEN LET obj == h.bufs[h.nodes[qt].objects].elems[i]
       IN ScanObjects(h, qt, query,
                      IF BoundaryContains(query, obj.pos)
                      THEN AppendResult(res, obj) ELSE res,
                      i + 1)
  ELSE res

QueryBranchesButLast(h, qt, query, res) ==
  LET q0 == QT_Query(h, h.nodes[qt].branches[1], query, res)
      q1 == After(q0, QT_Query(h, h.nodes[qt].branches[2], query, q0.res))
  IN After(q1, QT_Query(h, h.nodes[qt].branches[3], query, q1.res).res)

(* the recursion into branches 0 .. 3, its four rounds written out; the    *)
(* return values of the calls are dropped                                  *)
QueryBranches(h, qt, query, res) ==
  LET q0 == QT_Query(h, h.nodes[qt].branches[1], query, res)
      q1 == After(q0, QT_Query(h, h.nodes[qt].branches[2], query, q0.res))
      q2 == After(q1, QT_Query(h, h.nodes[qt].branches[3], query, q1.res))
  IN After(q2, QT_Query(h, h.nodes[qt].branches[4], query, q2.res).res)

QT_Query(h, qt, query, res) ==
  IF ~BoundaryIntersects(h.nodes[qt].boundary, query)
  THEN [ret |-> FALSE, res |-> res]
  ELSE LET r1 == ScanObjects(h, qt, query, res, 0)
           r2 == IF ~QT_IsLeaf(h, qt)
                 THEN QueryBranches(h, qt, query, r1)
                 ELSE r1
       IN After(r1, [ret |-> TRUE, res |-> r2])

(***************************************************************************)
(* QT_Destroy                                                              *)
(***************************************************************************)
RECURSIVE QT_Destroy(_, _)

(* the loop over the four branches, written out *)
DestroyBranches(h, root) ==
  LET d0 == QT_Destroy(h, h.nodes[root].branches[1])
      d1 == After(d0, QT_Destroy(d0, d0.nodes[root].branches[2]))
      d2 == After(d1, QT_Destroy(d1, d1.nodes[root].branches[3]))
  IN After(d2, QT_Destroy(d2, d2.nodes[root].branches[4]))

ReleaseObjectsNever(h, root) == h

(* if (root->objects != NULL) { free(root->objects); root->objects = NULL; } *)
ReleaseObjects(h, root) ==
  IF h.nodes[root].objects # NULL
  THEN [FreeObjects(h, h.nodes[root].objects)
          EXCEPT !.nodes[root].objects = NULL]
  ELSE h

QT_Destroy(h, root) ==
  IF root = NULL
  THEN h
  ELSE LET h0 == IF h.nodes[root].live THEN h
                 ELSE [h EXCEPT !.faults = @ \cup {"use after free"}]
           h1 == IF ~QT_IsLeaf(h0, root)
                 THEN DestroyBranches(h0, root)
                 ELSE h0
           h2 == After(h1, ReleaseObjects(h1, root))
       IN After(h2, FreeNode(h2, root))

(***************************************************************************)
(* The callers: configurations, inputs and the public operations           *)
(***************************************************************************)
(* the five points of the scenario of the specification, in order *)
ScenarioPoints ==
  <<V(10, 10), V(12, 12), V(0 - 10, 0 - 10), V(10, 0 - 10), V(0 - 10, 10)>>

ScenarioBoundary == Boundary(V(0, 0), V(100, 100))

ScenarioQuery == Boundary(V(10, 10), V(5, 5))

(* the point of the out-of-bounds scenario *)
ScenarioOutside == V(500, 500)

(* points offered to a tree with root boundary b: the centre, a point two  *)
(* units off the centre, a corner, the middle of a quadrant and a point    *)
(* one unit outside on the x axis only                                     *)
PointsOf(b) ==
  { b.pos,
    Vec2(b.pos.x - 2, b.pos.y - 2),
    Vec2(b.pos.x + b.half_dim.x, b.pos.y + b.half_dim.y),
    Vec2(b.pos.x - (b.half_dim.x \div 2), b.pos.y + (b.half_dim.y \div 2)),
    Vec2(b.pos.x + b.half_dim.x + 1, b.pos.y) }

(* query rectangles for a tree with root boundary b: the root boundary,    *)
(* the first quadrant, the inside of the second quadrant, the centre       *)
(* point, a rectangle touching the root's right edge and a disjoint one    *)
RegionsOf(b) ==
  { b,
    Boundary(Vec2(b.pos.x - (b.half_dim.x \div 2),
                  b.pos.y - (b.half_dim.y \div 2)),
             Vec2(b.half_dim.x \div 2, b.half_dim.y \div 2)),
    Boundary(Vec2(b.pos.x - (b.half_dim.x \div 2),
                  b.pos.y + (b.half_dim.y \div 2)),
             Vec2(b.half_dim.x \div 4, b.half_dim.y \div 4)),
    Boundary(b.pos, Vec2(0, 0)),
    Boundary(Vec2(b.pos.x + 2 * b.half_dim.x, b.pos.y), b.half_dim),
    Boundary(Vec2(b.pos.x + 3 * b.half_dim.x, b.pos.y + 3 * b.half_dim.y),
             b.half_dim) }

Configs ==
  << [boundary |-> ScenarioBoundary, capacity |-> 4,
      points |-> {ScenarioPoints[i] : i \in DOMAIN ScenarioPoints}
                   \cup {ScenarioOutside},
      regions |-> {ScenarioBoundary, ScenarioQuery,
                   Boundary(V(150, 0), V(50, 100)),
                   Boundary(V(300, 300), V(50, 50))},
      budget |-> Len(ScenarioPoints) + 1],
     [boundary |-> Boundary(V(0, 0), V(1, 1)), capacity |-> 1,
      points |-> PointsOf(Boundary(V(0, 0), V(1, 1))),
      regions |-> RegionsOf(Boundary(V(0, 0), V(1, 1))),
      budget |-> MaxInserts],
     [boundary |-> Boundary(V(1, 0 - 1), V(2, 1)), capacity |-> 2,
      points |-> PointsOf(Boundary(V(1, 0 - 1), V(2, 1))),
      regions |-> RegionsOf(Boundary(V(1, 0 - 1), V(2, 1))),
      budget |-> MaxInserts] >>

NoResults == Results(0, <<>>)

(* what the caller's result area holds before a query: nothing, or one     *)
(* earlier result                                                          *)
Sentinel == QT_Object(0, Vec2(0, 0))

PreResults == {NoResults, Results(1, <<Sentinel>>)}

NoRegion == Boundary(Vec2(0, 0), Vec2(0, 0))

(* the record of the last public call: its arguments and what it returned *)
Call(op, obj, region, arg, pre, ret, res) ==
  [op |-> op, obj |-> obj, region |-> region, arg |-> arg, pre |-> pre,
   ret |-> ret, res |-> res]

(* the two callers of the interleaved runs before they call: one is about  *)
(* to call QT_Insert, the other QT_Query; locked says whether the callers   *)
(* keep the rule that no query runs while an insertion is in flight         *)
RunIdle ==
  [locked |-> FALSE,
   start  |-> EmptyHeap,
   ins    |-> [pc |-> "idle", obj |-> Uninit, objIdx |-> 0, ret |-> FALSE],
   qry    |-> [pc |-> "idle", i |-> 0, branch |-> 0, res |-> NoResults,
               ret |-> FALSE, released |-> FALSE, null_read |-> FALSE]]

GeoIdle ==
  [op |-> "none", this |-> NoRegion, that |-> NoRegion, pos |-> Vec2(0, 0),
   ret |-> FALSE, rev |-> FALSE]

(* tree = QT_New(boundary, capacity) *)
Init ==
  \E c \in DOMAIN Configs :
    LET r == QT_New(EmptyHeap, Configs[c].boundary, Configs[c].capacity)
    IN /\ heap = r.h
       /\ tree = r.ptr
       /\ cfg = c
       /\ calls = <<>>
       /\ last = Call("new", Uninit, Configs[c].boundary, NULL,
                      NoResults, TRUE, NoResults)
       /\ geo = GeoIdle
       /\ run = RunIdle

(* the points the caller may insert next: in the scenario configuration    *)
(* the scenario's next point or the out-of-bounds point, otherwise any     *)
(* point of the configuration                                              *)
NextPoints ==
  IF cfg = 1
  THEN LET done == Cardinality({i \in DOMAIN calls : calls[i].ret})
       IN {ScenarioOutside} \cup
          (IF done < Len(ScenarioPoints)
           THEN {ScenarioPoints[done + 1]} ELSE {})
  ELSE Configs[cfg].points

(* QT_Insert(tree, &obj) *)
Insert ==
  /\ tree # NULL
  /\ Len(calls) < Configs[cfg].budget
  /\ \E pos \in NextPoints :
       LET obj == QT_Object(Len(calls) + 1, pos)
           r   == QT_Insert(AtCall(heap), tree, obj)
       IN /\ heap' = r.h
          /\ calls' = Append(calls, [obj |-> obj, ret |-> r.ret])
          /\ last' = Call("insert", obj, NoRegion, tree, NoResults,
                          r.ret, NoResults)
  /\ UNCHANGED <<tree, cfg, geo, run>>

(* QT_Query(tree, &region, &resultCount, resultArray) *)
Query ==
  /\ tree # NULL
  /\ \E region \in Configs[cfg].regions, pre \in PreResults :
       LET r == QT_Query(heap, tree, region, pre)
       IN last' = Call("query", Uninit, region, tree, pre, r.ret, r.res)
  /\ UNCHANGED <<heap, tree, cfg, calls, geo, run>>

(* QT_Destroy(p), for the tree or for NULL; the caller forgets a destroyed *)
(* tree                                                                    *)
Destroy ==
  /\ \E p \in {tree, NULL} :
       /\ heap' = QT_Destroy(heap, p)
       /\ tree' = IF p = NULL THEN tree ELSE NULL
       /\ last' = Call("destroy", Uninit, NoRegion, p, NoResults,
                       TRUE, NoResults)
  /\ UNCHANGED <<cfg, calls, geo, run>>

Next == Insert \/ Query \/ Destroy

Spec == Init /\ [][Next]_vars

(***************************************************************************)
(* The geometry predicates on their own                                    *)
(***************************************************************************)
GeoMax == 2

GeoRects ==
  { Boundary(Vec2(px, py), Vec2(hx, hy)) :
      px \in (0 - GeoMax) .. GeoMax, py \in {0 - 1, 0, GeoMax},
      hx \in 0 .. GeoMax, hy \in 0 .. GeoMax }

GeoThis ==
  { Boundary(pos, Vec2(hx, hy)) :
      pos \in {Vec2(0, 0), Vec2(1, 0 - 1)},
      hx \in 0 .. GeoMax, hy \in 0 .. GeoMax }

GeoPoints ==
  { Vec2(x, y) : x \in (0 - GeoMax - 1) .. (GeoMax + 2),
                 y \in (0 - GeoMax - 2) .. (GeoMax + 1) }

InitGeom ==
  /\ heap = EmptyHeap
  /\ tree = NULL
  /\ cfg = 1
  /\ calls = <<>>
  /\ last = Call("none", Uninit, NoRegion, NULL, NoResults, FALSE, NoResults)
  /\ geo = GeoIdle
  /\ run = RunIdle

Intersects ==
  /\ geo.op = "none"
  /\ \E this \in GeoThis, that \in GeoRects :
       geo' = [op |-> "intersects", this |-> this, that |-> that,
               pos |-> Vec2(0, 0),
               ret |-> BoundaryIntersects(this, that),
               rev |-> BoundaryIntersects(that, this)]
  /\ UNCHANGED <<heap, tree, cfg, calls, last, run>>

Contains ==
  /\ geo.op = "none"
  /\ \E b \in GeoThis, pos \in GeoPoints :
       geo' = [op |-> "contains", this |-> b, that |-> NoRegion,
               pos |-> pos,
               ret |-> BoundaryContains(b, pos),
               rev |-> FALSE]
  /\ UNCHANGED <<heap, tree, cfg, calls, last, run>>

NextGeom == Intersects \/ Contains

SpecGeom == InitGeom /\ [][NextGeom]_vars

(***************************************************************************)
(* Interleaved callers: one QT_Insert that subdivides the root and one     *)
(* QT_Query of the root, each advancing one statement group at a time on   *)
(* the shared heap.  The library takes no lock; run.locked says whether    *)
(* the callers serialise the two calls themselves.                         *)
(***************************************************************************)
ConcConfigs == {2, 3}

(* the centre of b, which lies on both split lines, and the middle of its  *)
(* south-west quadrant                                                     *)
ConcPoints(b) ==
  { b.pos,
    Vec2(b.pos.x - (b.half_dim.x \div 2), b.pos.y + (b.half_dim.y \div 2)) }

RECURSIVE Filled(_, _, _, _)
(* the heap after QT_Insert of the points pts[k], pts[k + 1], ... *)
Filled(h, qt, pts, k) ==
  IF k > Len(pts) THEN h
  ELSE Filled(QT_Insert(AtCall(h), qt, QT_Object(k, pts[k])).h, qt, pts, k + 1)

(* a tree whose root is a leaf filled to its capacity *)
InitConc ==
  \E c \in ConcConfigs, locked \in BOOLEAN :
    \E p1, p2 \in ConcPoints(Configs[c].boundary) :
      LET pts == SubSeq(<<p1, p2>>, 1, Configs[c].capacity)
          r   == QT_New(EmptyHeap, Configs[c].boundary, Configs[c].capacity)
          h   == AtCall(Filled(r.h, r.ptr, pts, 1))
      IN /\ Len(pts) = Configs[c].capacity
         /\ (Configs[c].capacity = 1 => p2 = p1)
         /\ heap = h
         /\ tree = r.ptr
         /\ cfg = c
         /\ calls = IF Len(pts) = 1
                    THEN <<[obj |-> QT_Object(1, p1), ret |-> TRUE]>>
                    ELSE <<[obj |-> QT_Object(1, p1), ret |-> TRUE],
                           [obj |-> QT_Object(2, p2), ret |-> TRUE]>>
         /\ last = Call("new", Uninit, Configs[c].boundary, NULL,
                        NoResults, TRUE, NoResults)
         /\ geo = GeoIdle
         /\ run = [RunIdle EXCEPT !.locked = locked, !.start = h]

InsertRunning == run.ins.pc \notin {"idle", "done"}
QueryRunning  == run.qry.pc \notin {"idle", "done", "crashed"}

(* QT_Insert(tree, &obj) up to the call of QT_Subdivide, lines 123-134 *)
InsertCall ==
  /\ run.ins.pc = "idle"
  /\ run.locked => ~QueryRunning
  /\ \E pos \in ConcPoints(Configs[cfg].boundary) :
       LET obj == QT_Object(Len(calls) + 1, pos)
           n   == heap.nodes[tree]
       IN IF ~BoundaryContains(n.boundary, obj.pos)
          THEN /\ heap' = heap
               /\ run' = [run EXCEPT !.ins.pc = "done", !.ins.obj = obj,
                                     !.ins.ret = FALSE]
          ELSE IF n.obj_count < n.capacity /\ n.objects # NULL
          THEN /\ heap' = StoreObject(heap, tree, obj)
               /\ run' = [run EXCEPT !.ins.pc = "done", !.ins.obj = obj,
                                     !.ins.ret = TRUE]
          ELSE IF MaySubdivide(heap, tree)
          THEN /\ heap' = heap
               /\ run' = [run EXCEPT !.ins.pc = "create", !.ins.obj = obj]
          ELSE /\ heap' = GrowAndStore(heap, tree, obj)
               /\ run' = [run EXCEPT !.ins.pc = "done", !.ins.obj = obj,
                                     !.ins.ret = TRUE]
  /\ UNCHANGED <<tree, cfg, calls, last, geo>>

(* QT_Subdivide, lines 84-107 *)
SubdivideCreate ==
  /\ run.ins.pc = "create"
  /\ heap' = CreateBranches(heap, tree)
  /\ run' = [run EXCEPT !.ins.pc = "push", !.ins.objIdx = 0]
  /\ UNCHANGED <<tree, cfg, calls, last, geo>>

(* one round of the push down loop, lines 109-116 *)
SubdividePush ==
  /\ run.ins.pc = "push"
  /\ run.ins.objIdx < heap.nodes[tree].obj_count
  /\ heap' = PushDownObject(heap, tree,
                heap.bufs[heap.nodes[tree].objects].elems[run.ins.objIdx]).h
  /\ run' = [run EXCEPT !.ins.objIdx = @ + 1]
  /\ UNCHANGED <<tree, cfg, calls, last, geo>>

(* the loop ends; line 118 *)
SubdivideCount ==
  /\ run.ins.pc = "push"
  /\ ~(run.ins.objIdx < heap.nodes[tree].obj_count)
  /\ heap' = ResetCount(heap, tree)
  /\ run' = [run EXCEPT !.ins.pc = "free"]
  /\ UNCHANGED <<tree, cfg, calls, last, geo>>

(* line 119 *)
SubdivideFree ==
  /\ run.ins.pc = "free"
  /\ heap' = FreeObjects(heap, heap.nodes[tree].objects)
  /\ run' = [run EXCEPT !.ins.pc = "forget"]
  /\ UNCHANGED <<tree, cfg, calls, last, geo>>

(* line 120, and the return of QT_Subdivide *)
SubdivideForget ==
  /\ run.ins.pc = "forget"
  /\ heap' = ForgetObjects(heap, tree)
  /\ run' = [run EXCEPT !.ins.pc = "branches"]
  /\ UNCHANGED <<tree, cfg, calls, last, geo>>

(* the rest of QT_Insert, lines 135-152 *)
InsertReturn ==
  /\ run.ins.pc = "branches"
  /\ heap' = GrowUnlessTaken(
                InsertBranches(AtCall(heap), tree, run.ins.obj),
                tree, run.ins.obj).h
  /\ run' = [run EXCEPT !.ins.pc = "done", !.ins.ret = TRUE]
  /\ calls' = Append(calls, [obj |-> run.ins.obj, ret |-> TRUE])
  /\ UNCHANGED <<tree, cfg, last, geo>>

(* QT_Query(tree, &boundary, &resultCount, resultArray), lines 155-159 *)
QueryCall ==
  /\ run.qry.pc = "idle"
  /\ run.locked => ~InsertRunning
  /\ run' = IF BoundaryIntersects(Configs[cfg].boundary,
                                  heap.nodes[tree].boundary)
            THEN [run EXCEPT !.qry.pc = "scan", !.qry.i = 0]
            ELSE [run EXCEPT !.qry.pc = "done", !.qry.ret = FALSE]
  /\ UNCHANGED <<heap, tree, cfg, calls, last, geo>>

(* the loop condition i < qt->obj_count, line 160 *)
QueryLoop ==
  /\ run.qry.pc = "scan"
  /\ run' = IF run.qry.i < heap.nodes[tree].obj_count
            THEN [run EXCEPT !.qry.pc = "read"]
            ELSE [run EXCEPT !.qry.pc = "leaf"]
  /\ UNCHANGED <<heap, tree, cfg, calls, last, geo>>

(* the loop body, lines 161-165: qt->objects is read now.  A null pointer  *)
(* ends the caller; a released buffer yields what it held or anything else *)
QueryRead ==
  /\ run.qry.pc = "read"
  /\ LET p == heap.nodes[tree].objects
     IN IF p = NULL
        THEN run' = [run EXCEPT !.qry.pc = "crashed", !.qry.null_read = TRUE]
        ELSE \E obj \in (IF heap.bufs[p].live
                         THEN {heap.bufs[p].elems[run.qry.i]}
                         ELSE {heap.bufs[p].elems[run.qry.i], Uninit}) :
               run' = [run EXCEPT
                         !.qry.pc = "scan",
                         !.qry.i = @ + 1,
                         !.qry.released = @ \/ ~heap.bufs[p].live,
                         !.qry.res =
                            IF BoundaryContains(Configs[cfg].boundary,
                                                obj.pos)
                            THEN AppendResult(@, obj) ELSE @]
  /\ UNCHANGED <<heap, tree, cfg, calls, last, geo>>

(* the query returns after the node's own objects, whatever the node is *)
QueryLeafNoDescent ==
  /\ run.qry.pc = "leaf"
  /\ run' = [run EXCEPT !.qry.pc = "done", !.qry.ret = TRUE]
  /\ UNCHANGED <<heap, tree, cfg, calls, last, geo>>

(* the leaf test, line 168 *)
QueryLeaf ==
  /\ run.qry.pc = "leaf"
  /\ run' = IF QT_IsLeaf(heap, tree)
            THEN [run EXCEPT !.qry.pc = "done", !.qry.ret = TRUE]
            ELSE [run EXCEPT !.qry.pc = "branch", !.qry.branch = 0]
  /\ UNCHANGED <<heap, tree, cfg, calls, last, geo>>

(* one round of the loop over the branches, lines 169-171, and the return  *)
(* after the last round                                                    *)
QueryBranch ==
  /\ run.qry.pc = "branch"
  /\ LET r == QT_Query(heap, heap.nodes[tree].branches[run.qry.branch + 1],
                       Configs[cfg].boundary, run.qry.res)
     IN run' = [run EXCEPT
                  !.qry.res = r.res,
                  !.qry.branch = @ + 1,
                  !.qry.pc = IF run.qry.branch + 1 < 4 THEN "branch"
                             ELSE "done",
                  !.qry.ret = TRUE]
  /\ UNCHANGED <<heap, tree, cfg, calls, last, geo>>

NextConc ==
  \/ InsertCall \/ SubdivideCreate \/ SubdividePush \/ SubdivideCount
  \/ SubdivideFree \/ SubdivideForget \/ InsertReturn
  \/ QueryCall \/ QueryLoop \/ QueryRead \/ QueryLeaf \/ QueryBranch

SpecConc == InitConc /\ [][NextConc]_vars

(***************************************************************************)
(* Vocabulary of the properties                                            *)
(***************************************************************************)
(* the closed rectangle of b as a product of two integer intervals *)
Inside(b, p) ==
  /\ p.x \in (b.pos.x - b.half_dim.x) .. (b.pos.x + b.half_dim.x)
  /\ p.y \in (b.pos.y - b.half_dim.y) .. (b.pos.y + b.half_dim.y)

(* two closed rectangles share at least one point *)
Overlap(a, b) ==
  /\ a.pos.x - a.half_dim.x <= b.pos.x + b.half_dim.x
  /\ b.pos.x - b.half_dim.x <= a.pos.x + a.half_dim.x
  /\ a.pos.y - a.half_dim.y <= b.pos.y + b.half_dim.y
  /\ b.pos.y - b.half_dim.y <= a.pos.y + a.half_dim.y

(* the multiset of the elements of a sequence *)
BagOf(seq) ==
  [e \in {seq[i] : i \in DOMAIN seq} |->
     Cardinality({i \in DOMAIN seq : seq[i] = e})]

RootBoundary == Configs[cfg].boundary

(* the objects of all QT_Insert calls so far, in call order *)
Offered == [i \in DOMAIN calls |-> calls[i].obj]

(* the objects of the calls that returned true *)
Accepted == SelectSeq(Offered, LAMBDA o :
              \E i \in DOMAIN calls : calls[i].obj = o /\ calls[i].ret)

(* what the last query added to the caller's result area *)
Appended ==
  SubSeq(last.res.resultArray, last.pre.resultCount + 1,
         last.res.resultCount)

LiveNodes == {q \in DOMAIN heap.nodes : heap.nodes[q].live}

(***************************************************************************)
(* C1: a query over the root's own boundary returns exactly the multiset   *)
(* of the objects inserted at points inside the root boundary: each once,  *)
(* none lost, none duplicated, whatever subdivisions and buffer growths    *)
(* happened.                                                               *)
(***************************************************************************)
C1_FullQueryReturnsInserted ==
  (last.op = "query" /\ last.region = RootBoundary) =>
    BagOf(Appended) =
      BagOf(SelectSeq(Offered, LAMBDA o : Inside(RootBoundary, o.pos)))

(* a full query of a tree that was subdivided down to the deepest level    *)
(* and whose deepest leaf has grown                                        *)
C1_Witness ==
  /\ last.op = "query" /\ last.region = RootBoundary
  /\ Len(Appended) >= 3
  /\ \E q \in LiveNodes :
       /\ heap.nodes[q].depth = QT_MAX_DEPTH + 1
       /\ heap.nodes[q].capacity > Configs[cfg].capacity

(***************************************************************************)
(* C2: for every query rectangle the pruned traversal appends the same     *)
(* multiset as a linear scan of all accepted objects filtered by the       *)
(* closed rectangle.                                                       *)
(***************************************************************************)
C2_QueryEqualsLinearScan ==
  last.op = "query" =>
    BagOf(Appended) =
      BagOf(SelectSeq(Accepted, LAMBDA o : Inside(last.region, o.pos)))

(* a query that found something, left something out, and pruned a branch   *)
(* of the root that holds objects                                          *)
C2_Witness ==
  /\ last.op = "query"
  /\ Len(Appended) >= 1
  /\ Len(Appended) < Len(Accepted)
  /\ \E i \in 1 .. 4 :
       /\ heap.nodes[tree].branches[i] # NULL
       /\ heap.nodes[heap.nodes[tree].branches[i]].obj_count > 0
       /\ ~Overlap(heap.nodes[heap.nodes[tree].branches[i]].boundary,
                   last.region)

(***************************************************************************)
(* C3: QT_Insert on the root returns false exactly for the points outside  *)
(* the root's closed boundary, and a call that returns false changes no    *)
(* node and no buffer, so every query answers as before.                   *)
(***************************************************************************)
C3_RejectsExactlyOutside ==
  [][ last'.op = "insert" =>
        /\ last'.ret = Inside(RootBoundary, last'.obj.pos)
        /\ ~last'.ret =>
             /\ heap'.nodes = heap.nodes
             /\ heap'.bufs = heap.bufs
             /\ \A region \in Configs[cfg].regions :
                  QT_Query(heap', tree, region, NoResults)
                    = QT_Query(heap, tree, region, NoResults) ]_vars

(* a rejected insertion into a subdivided tree *)
C3_Witness ==
  /\ last.op = "insert" /\ ~last.ret
  /\ ~QT_IsLeaf(heap, tree)
  /\ Len(Accepted) >= 2

(***************************************************************************)
(* C4 as stated: after the five scenario insertions the query with centre  *)
(* (10,10) and half-extent (5,5) returns exactly the point (10,10).        *)
(***************************************************************************)
ScenarioRun ==
  /\ cfg = 1
  /\ [i \in DOMAIN calls |-> calls[i].obj.pos] = ScenarioPoints
  /\ last.op = "query"
  /\ last.region = ScenarioQuery
  /\ last.pre = NoResults

C4_OnlyTenTen ==
  ScenarioRun =>
    [i \in DOMAIN Appended |-> Appended[i].pos] = <<V(10, 10)>>

(***************************************************************************)
(* C4 amended: that query returns exactly the two points (10,10) and       *)
(* (12,12), each once; (12,12) lies inside the closed rectangle            *)
(* [5,15] x [5,15].                                                        *)
(***************************************************************************)
C4_TenTenAndTwelveTwelve ==
  ScenarioRun =>
    BagOf(Appended) = BagOf(<<calls[1].obj, calls[2].obj>>)

C4_Witness ==
  /\ ScenarioRun
  /\ last.res.resultCount = 2
  /\ ~QT_IsLeaf(heap, tree)

(***************************************************************************)
(* C5: QT_Query on the root returns true exactly when the root boundary    *)
(* and the region share a point (touching included), whether or not an     *)
(* object matched; when it returns false the result count and the result   *)
(* array are as before.                                                    *)
(***************************************************************************)
C5_QueryReturnValue ==
  last.op = "query" =>
    /\ last.ret = Overlap(RootBoundary, last.region)
    /\ ~last.ret => last.res = last.pre

(* a query of a disjoint region on a tree with objects, with an earlier    *)
(* result in the result area                                               *)
C5_Witness ==
  /\ last.op = "query" /\ ~last.ret
  /\ last.pre.resultCount = 1
  /\ Len(Accepted) >= 1

(***************************************************************************)
(* C6: QT_Destroy of the tree releases every node and every object buffer  *)
(* that was ever allocated exactly once, nothing is released twice and     *)
(* nothing is used after its release at any time; QT_Destroy(NULL) changes *)
(* nothing.                                                                *)
(***************************************************************************)
C6_DestroyReleasesAllOnce ==
  /\ [](/\ heap.faults = {}
        /\ \A q \in DOMAIN heap.nodes :
             heap.nodes[q].frees = IF heap.nodes[q].live THEN 0 ELSE 1
        /\ \A p \in DOMAIN heap.bufs :
             heap.bufs[p].frees = IF heap.bufs[p].live THEN 0 ELSE 1
        /\ (last.op = "destroy" /\ last.arg # NULL) =>
             /\ \A q \in DOMAIN heap.nodes : ~heap.nodes[q].live
             /\ \A p \in DOMAIN heap.bufs : ~heap.bufs[p].live)
  /\ [][(last'.op = "destroy" /\ last'.arg = NULL) => heap' = heap]_vars

(* the destruction of a subdivided tree in which buffers were released by  *)
(* subdivision and created again afterwards                                *)
C6_Witness ==
  /\ last.op = "destroy" /\ last.arg # NULL
  /\ heap.nodes[last.arg].branches[1] # NULL
  /\ Cardinality(DOMAIN heap.bufs) > Cardinality(DOMAIN heap.nodes) + 1

(***************************************************************************)
(* C7: BoundaryIntersects is symmetric, true for rectangles that only      *)
(* touch at an edge or a corner, and false exactly when the centre         *)
(* distance exceeds the sum of the half-extents on the x axis or on the y  *)
(* axis.                                                                   *)
(***************************************************************************)
C7_IntersectsSymmetricClosed ==
  geo.op = "intersects" =>
    LET dx == IF geo.this.pos.x < geo.that.pos.x
              THEN geo.that.pos.x - geo.this.pos.x
              ELSE geo.this.pos.x - geo.that.pos.x
        dy == IF geo.this.pos.y < geo.that.pos.y
              THEN geo.that.pos.y - geo.this.pos.y
              ELSE geo.this.pos.y - geo.that.pos.y
        sx == geo.this.half_dim.x + geo.that.half_dim.x
        sy == geo.this.half_dim.y + geo.that.half_dim.y
    IN /\ geo.ret = geo.rev
       /\ (~geo.ret) = (dx > sx \/ dy > sy)
       /\ ((dx = sx /\ dy <= sy) \/ (dy = sy /\ dx <= sx)) => geo.ret

(* two rectangles of positive extent that touch at one corner only *)
C7_Witness ==
  /\ geo.op = "intersects" /\ geo.ret /\ geo.rev
  /\ geo.this.half_dim.x > 0 /\ geo.this.half_dim.y > 0
  /\ geo.that.half_dim.x > 0 /\ geo.that.half_dim.y > 0
  /\ geo.that.pos.x - geo.this.pos.x
       = geo.this.half_dim.x + geo.that.half_dim.x
  /\ geo.that.pos.y - geo.this.pos.y
       = geo.this.half_dim.y + geo.that.half_dim.y

(***************************************************************************)
(* C8: BoundaryContains is true exactly for the points whose x and y lie   *)
(* in the closed intervals centre - half_extent .. centre + half_extent,   *)
(* edges and corners included.                                             *)
(***************************************************************************)
C8_ContainsInclusive ==
  geo.op = "contains" => geo.ret = Inside(geo.this, geo.pos)

(* a point on a corner of a rectangle with positive extent *)
C8_Witness ==
  /\ geo.op = "contains" /\ geo.ret
  /\ geo.this.half_dim.x > 0 /\ geo.this.half_dim.y > 0
  /\ geo.pos.x = geo.this.pos.x - geo.this.half_dim.x
  /\ geo.pos.y = geo.this.pos.y + geo.this.half_dim.y

(***************************************************************************)
(* C9 as stated: every node that has children has object count 0 and no   *)
(* buffer.                                                                 *)
(***************************************************************************)
C9_InternalNodesHoldNothing ==
  \A q \in LiveNodes :
    heap.nodes[q].branches[1] # NULL =>
      heap.nodes[q].obj_count = 0 /\ heap.nodes[q].objects = NULL

(***************************************************************************)
(* C10 as stated: a full leaf is subdivided only while its depth is below  *)
(* QT_MAX_DEPTH; a full leaf of depth QT_MAX_DEPTH grows instead.          *)
(***************************************************************************)
C10_SubdividesBelowMaxDepth ==
  last.op = "insert" =>
    \A i \in DOMAIN heap.trace :
      heap.trace[i].ev = "subdivide" => heap.trace[i].depth < QT_MAX_DEPTH

(***************************************************************************)
(* C10 amended: a full leaf is subdivided only while its depth is at most  *)
(* QT_MAX_DEPTH; a full leaf whose depth exceeds QT_MAX_DEPTH is not       *)
(* subdivided: its capacity is doubled, the object is appended to it and   *)
(* it gets no children.                                                    *)
(***************************************************************************)
C10_SubdividesUpToMaxDepth ==
  last.op = "insert" =>
    \A i \in DOMAIN heap.trace :
      LET e  == heap.trace[i]
          n  == heap.nodes[e.node]
      IN /\ e.ev = "subdivide" =>
              e.leaf /\ e.obj_count >= e.capacity /\ e.depth <= QT_MAX_DEPTH
         /\ (e.leaf /\ e.obj_count >= e.capacity /\ e.depth > QT_MAX_DEPTH) =>
              /\ e.ev = "grow"
              /\ n.capacity = 2 * e.capacity
              /\ heap.bufs[n.objects].size = 2 * e.capacity
              /\ n.obj_count = e.obj_count + 1
              /\ heap.bufs[n.objects].elems[e.obj_count] = last.obj
              /\ n.branches = <<NULL, NULL, NULL, NULL>>

(* one insertion that subdivided a leaf of depth QT_MAX_DEPTH and then     *)
(* grew the full leaf below it                                             *)
C10_Witness ==
  /\ last.op = "insert"
  /\ \E i \in DOMAIN heap.trace :
       heap.trace[i].ev = "subdivide" /\ heap.trace[i].depth = QT_MAX_DEPTH
  /\ \E i \in DOMAIN heap.trace :
       /\ heap.trace[i].ev = "grow" /\ heap.trace[i].leaf
       /\ heap.trace[i].depth = QT_MAX_DEPTH + 1

(***************************************************************************)
(* C11: in every state between public operations each node has either all  *)
(* four branch slots absent or all four present, so the test of slot 0     *)
(* alone (QT_IsLeaf) tells leaves from internal nodes.                     *)
(***************************************************************************)
C11_AllOrNoBranches ==
  \A q \in LiveNodes :
    LET br == heap.nodes[q].branches
    IN /\ QT_IsLeaf(heap, q) => \A i \in 1 .. 4 : br[i] = NULL
       /\ ~QT_IsLeaf(heap, q) =>
            /\ \A i \in 1 .. 4 : br[i] \in LiveNodes
            /\ Cardinality({br[i] : i \in 1 .. 4}) = 4

(* a tree with internal nodes on every level down to QT_MAX_DEPTH and      *)
(* leaves next to them                                                     *)
C11_Witness ==
  /\ last.op = "insert"
  /\ \E q \in LiveNodes :
       ~QT_IsLeaf(heap, q) /\ heap.nodes[q].depth = QT_MAX_DEPTH
  /\ \E q \in LiveNodes :
       QT_IsLeaf(heap, q) /\ heap.nodes[q].depth = 2

(***************************************************************************)
(* C12: the root has depth 1, every child has its parent's depth plus 1,   *)
(* no node is deeper than QT_MAX_DEPTH + 1, and every node deeper than     *)
(* QT_MAX_DEPTH is a leaf, whatever was inserted into it.                  *)
(***************************************************************************)
C12_DepthBounded ==
  tree # NULL =>
    /\ heap.nodes[tree].depth = 1
    /\ \A q \in LiveNodes :
         /\ heap.nodes[q].depth <= QT_MAX_DEPTH + 1
         /\ heap.nodes[q].depth > QT_MAX_DEPTH => QT_IsLeaf(heap, q)
         /\ \A i \in 1 .. 4 :
              heap.nodes[q].branches[i] # NULL =>
                heap.nodes[heap.nodes[q].branches[i]].depth
                  = heap.nodes[q].depth + 1

(* a leaf of depth QT_MAX_DEPTH + 1 that took more objects than the        *)
(* capacity it was created with                                            *)
C12_Witness ==
  /\ tree # NULL
  /\ \E q \in LiveNodes :
       /\ heap.nodes[q].depth = QT_MAX_DEPTH + 1
       /\ heap.nodes[q].obj_count > Configs[cfg].capacity
       /\ QT_IsLeaf(heap, q)

(***************************************************************************)
(* C13: each subdivision puts every object the node held into exactly one  *)
(* branch, the first of NW, SW, NE, SE whose closed boundary contains its  *)
(* position; no object is dropped or put twice, and a query of the node's  *)
(* full boundary returns the same objects before and after.                *)
(***************************************************************************)
C13_SubdivideRedistributes ==
  \A k \in 1 .. Len(heap.splits) :
    LET s     == heap.splits[k]
        moved == s.kids[1].objs \o s.kids[2].objs
                   \o s.kids[3].objs \o s.kids[4].objs
        Takes(i, o) == Inside(s.kids[i].boundary, o.pos)
        InKid(i, o) == \E j \in 1 .. Len(s.kids[i].objs) :
                          s.kids[i].objs[j] = o
    IN /\ BagOf(moved) = BagOf(s.before)
       /\ \A m \in 1 .. Len(s.before) :
            \A i \in 1 .. 4 :
              InKid(i, s.before[m]) <=>
                /\ Takes(i, s.before[m])
                /\ \A j \in 1 .. (i - 1) : ~Takes(j, s.before[m])
       /\ s.q_before.resultCount = Len(s.before)
       /\ s.q_after.resultCount = Len(s.before)
       /\ BagOf(s.q_before.resultArray) = BagOf(s.before)
       /\ BagOf(s.q_after.resultArray) = BagOf(s.before)

(* one call that subdivided twice or more, where a node held two objects   *)
(* or more, one object lay on the split lines, inside several branches,    *)
(* and one object went to a branch other than the first                    *)
C13_Witness ==
  /\ last.op = "insert"
  /\ Len(heap.splits) >= 2
  /\ \E k \in 1 .. Len(heap.splits) : Len(heap.splits[k].before) >= 2
  /\ \E k \in 1 .. Len(heap.splits) :
       LET s == heap.splits[k]
       IN \E m \in 1 .. Len(s.before) :
            /\ Inside(s.kids[1].boundary, s.before[m].pos)
            /\ Inside(s.kids[4].boundary, s.before[m].pos)
  /\ \E k \in 1 .. Len(heap.splits) :
       LET s == heap.splits[k]
       IN \E m \in 1 .. Len(s.before) :
            ~Inside(s.kids[1].boundary, s.before[m].pos)

(***************************************************************************)
(* C14: the four branches of a node have half its half-extents, their      *)
(* centres lie one branch half-extent from the node's centre, in slot      *)
(* order NW (-x, -y), SW (-x, +y), NE (+x, -y), SE (+x, +y); the closed    *)
(* branch rectangles together cover exactly the node's closed rectangle,   *)
(* two of them share points only on the split lines, and every point the   *)
(* node contains is contained by at least one branch.  The extents and     *)
(* centres are compared on every internal node of every state; the cover   *)
(* is probed on each node in the state after the call that subdivided it.  *)
(***************************************************************************)
SignX(i) == IF i <= 2 THEN 0 - 1 ELSE 1
SignY(i) == IF i \in {1, 3} THEN 0 - 1 ELSE 1

(* points on, next to and between the edges and split lines of b *)
Probes(b) ==
  LET xs == {b.pos.x - b.half_dim.x - 1, b.pos.x - b.half_dim.x,
             b.pos.x - 1, b.pos.x, b.pos.x + 1,
             b.pos.x + b.half_dim.x, b.pos.x + b.half_dim.x + 1}
      ys == {b.pos.y - b.half_dim.y - 1, b.pos.y - b.half_dim.y,
             b.pos.y - 1, b.pos.y, b.pos.y + 1,
             b.pos.y + b.half_dim.y, b.pos.y + b.half_dim.y + 1}
  IN {Vec2(x, y) : x \in xs, y \in ys}

C14_BranchesTileNode ==
  /\ \A q \in LiveNodes :
       ~QT_IsLeaf(heap, q) =>
         LET b      == heap.nodes[q].boundary
             kid(i) == heap.nodes[heap.nodes[q].branches[i]].boundary
         IN \A i \in 1 .. 4 :
              /\ 2 * kid(i).half_dim.x = b.half_dim.x
              /\ 2 * kid(i).half_dim.y = b.half_dim.y
              /\ kid(i).pos.x = b.pos.x + SignX(i) * kid(i).half_dim.x
              /\ kid(i).pos.y = b.pos.y + SignY(i) * kid(i).half_dim.y
  /\ last.op = "insert" =>
       \A k \in 1 .. Len(heap.splits) :
         LET b      == heap.splits[k].boundary
             kid(i) == heap.splits[k].kids[i].boundary
         IN \A p \in Probes(b) :
              /\ BoundaryContains(b, p) <=>
                   \E i \in 1 .. 4 : BoundaryContains(kid(i), p)
              /\ \A i, j \in 1 .. 4 :
                   (i # j /\ BoundaryContains(kid(i), p)
                          /\ BoundaryContains(kid(j), p))
                     => (p.x = b.pos.x \/ p.y = b.pos.y)

(* a tree over a rectangle that is not a square and not centred at the     *)
(* origin, subdivided on every level down to QT_MAX_DEPTH                  *)
C14_Witness ==
  /\ tree # NULL
  /\ Configs[cfg].boundary.half_dim.x # Configs[cfg].boundary.half_dim.y
  /\ Configs[cfg].boundary.pos # Vec2(0, 0)
  /\ \E q \in LiveNodes :
       ~QT_IsLeaf(heap, q) /\ heap.nodes[q].depth = QT_MAX_DEPTH

(***************************************************************************)
(* C15: QT_Insert of a contained point into a leaf with spare capacity     *)
(* appends the object to that leaf and returns true, without subdividing   *)
(* and without changing the capacity.  So a fresh tree of capacity c keeps *)
(* its first c contained insertions in the root, in order, and subdivides  *)
(* for the first time on contained insertion c + 1; the five scenario      *)
(* points in the capacity-4 tree cause exactly one subdivision.            *)
(***************************************************************************)
(* the snapshot of the node of trace event i that follows the event: the   *)
(* next event on the same node, or the node as the call leaves it          *)
SnapshotAfter(i) ==
  LET q     == heap.trace[i].node
      later == {j \in (i + 1) .. Len(heap.trace) : heap.trace[j].node = q}
  IN IF later = {}
     THEN [obj_count |-> heap.nodes[q].obj_count,
           capacity  |-> heap.nodes[q].capacity,
           objects   |-> heap.nodes[q].objects,
           leaf      |-> QT_IsLeaf(heap, q)]
     ELSE LET j == CHOOSE m \in later : \A o \in later : m <= o
          IN [obj_count |-> heap.trace[j].obj_count,
              capacity  |-> heap.trace[j].capacity,
              objects   |-> heap.trace[j].objects,
              leaf      |-> heap.trace[j].leaf]

C15_SpareCapacityAppends ==
  /\ [](/\ last.op = "insert" =>
             \A i \in 1 .. Len(heap.trace) :
               LET e == heap.trace[i]
               IN (e.leaf /\ e.obj_count < e.capacity) =>
                    /\ e.ev = "store"
                    /\ SnapshotAfter(i) =
                         [obj_count |-> e.obj_count + 1,
                          capacity  |-> e.capacity,
                          objects   |-> e.objects,
                          leaf      |-> TRUE]
        /\ tree # NULL =>
             /\ Len(Accepted) <= Configs[cfg].capacity =>
                  /\ QT_IsLeaf(heap, tree)
                  /\ Held(heap, tree) = Accepted
                  /\ heap.nodes[tree].capacity = Configs[cfg].capacity
                  /\ Cardinality(DOMAIN heap.nodes) = 1
             /\ Len(Accepted) > Configs[cfg].capacity =>
                  ~QT_IsLeaf(heap, tree)
             /\ (cfg = 1 /\ [i \in DOMAIN Accepted |-> Accepted[i].pos]
                              = ScenarioPoints) =>
                  /\ Cardinality(DOMAIN heap.nodes) = 5
                  /\ \A i \in 1 .. 4 :
                       QT_IsLeaf(heap, heap.nodes[tree].branches[i]))
  /\ [][(/\ last'.op = "insert"
         /\ QT_IsLeaf(heap, tree)
         /\ heap.nodes[tree].obj_count < heap.nodes[tree].capacity
         /\ Inside(RootBoundary, last'.obj.pos))
        => /\ last'.ret
           /\ Held(heap', tree) = Append(Held(heap, tree), last'.obj)
           /\ heap'.nodes[tree].capacity = heap.nodes[tree].capacity
           /\ heap'.nodes[tree].objects = heap.nodes[tree].objects
           /\ QT_IsLeaf(heap', tree)
           /\ heap'.splits = <<>>
           /\ DOMAIN heap'.nodes = DOMAIN heap.nodes
           /\ DOMAIN heap'.bufs = DOMAIN heap.bufs]_vars
  /\ [][(/\ last'.op = "insert"
         /\ last'.ret
         /\ Len(Accepted) = Configs[cfg].capacity)
        => /\ QT_IsLeaf(heap, tree)
           /\ Len(heap'.splits) >= 1
           /\ heap'.splits[1].node = tree
           /\ heap'.splits[1].before = Accepted]_vars

(* the scenario's five points are in the capacity-4 tree: the fifth call   *)
(* subdivided the root once and the branches took the points               *)
C15_Witness ==
  /\ cfg = 1
  /\ last.op = "insert"
  /\ [i \in DOMAIN Accepted |-> Accepted[i].pos] = ScenarioPoints
  /\ Len(heap.splits) = 1
  /\ \E i \in 1 .. Len(heap.trace) :
       heap.trace[i].ev = "store" /\ heap.trace[i].depth = 2

(***************************************************************************)
(* C16: subdivision is one-way.  A node that has branches keeps the same   *)
(* four branches through every later operation until QT_Destroy releases   *)
(* it, no node is subdivided twice, and no node's boundary or depth        *)
(* changes once the node is part of the tree.                              *)
(***************************************************************************)
C16_SubdivisionOneWay ==
  [][/\ \A q \in DOMAIN heap.nodes :
          heap'.nodes[q].live =>
            /\ heap'.nodes[q].boundary = heap.nodes[q].boundary
            /\ heap'.nodes[q].depth = heap.nodes[q].depth
            /\ ~QT_IsLeaf(heap, q) =>
                 heap'.nodes[q].branches = heap.nodes[q].branches
     /\ last'.op = "insert" =>
          \A k \in 1 .. Len(heap'.splits) :
            /\ heap'.splits[k].node \in DOMAIN heap.nodes =>
                 QT_IsLeaf(heap, heap'.splits[k].node)
            /\ \A m \in 1 .. Len(heap'.splits) :
                 heap'.splits[m].node = heap'.splits[k].node => m = k]_vars

(* an insertion accepted by a tree whose root already had its branches:    *)
(* the call subdivided nothing                                             *)
C16_Witness ==
  /\ last.op = "insert"
  /\ last.ret
  /\ ~QT_IsLeaf(heap, tree)
  /\ heap.splits = <<>>
  /\ heap.trace # <<>>

C18_CountWithinCapacity ==
  /\ [](/\ \A q \in LiveNodes :
             LET n == heap.nodes[q]
             IN /\ 0 <= n.obj_count
                /\ n.obj_count <= n.capacity
                /\ n.capacity >= Configs[cfg].capacity
                /\ n.objects # NULL =>
                     /\ heap.bufs[n.objects].live
                     /\ heap.bufs[n.objects].size = n.capacity
                     /\ \A i \in 0 .. (n.obj_count - 1) :
                          heap.bufs[n.objects].elems[i] # Uninit
        /\ heap.faults \cap {"out of bounds write", "null write",
                             "use after free"} = {}
        /\ last.op = "insert" =>
             \A i \in 1 .. Len(heap.trace) :
               LET e == heap.trace[i]
               IN /\ e.ev = "grow" =>
                       SnapshotAfter(i).capacity = 2 * e.capacity
                  /\ e.ev # "grow" =>
                       SnapshotAfter(i).capacity = e.capacity)
  /\ [][\A q \in DOMAIN heap.nodes :
          heap'.nodes[q].capacity \in {heap.nodes[q].capacity,
                                       2 * heap.nodes[q].capacity}]_vars

(* one call that redistributed objects on every level and then doubled     *)
(* the buffer of the full leaf at depth QT_MAX_DEPTH + 1                   *)
C18_Witness ==
  /\ last.op = "insert"
  /\ Len(heap.splits) = QT_MAX_DEPTH
  /\ \E i \in 1 .. Len(heap.trace) :
       /\ heap.trace[i].ev = "grow"
       /\ heap.trace[i].obj_count = heap.trace[i].capacity
       /\ heap.trace[i].capacity >= 2
  /\ \E q \in LiveNodes :
       /\ heap.nodes[q].capacity = 2 * Configs[cfg].capacity
       /\ heap.nodes[q].obj_count = Configs[cfg].capacity + 1

(***************************************************************************)
(* C19: every object in the buffer of any node has its position inside     *)
(* the closed boundary of that node and of every ancestor of that node.    *)
(***************************************************************************)
RECURSIVE SubtreeInside(_, _)
(* the objects held in the subtree of q lie inside the boundary of q and   *)
(* inside every boundary of the set outer, the boundaries of q's ancestors *)
SubtreeInside(q, outer) ==
  LET bs   == outer \cup {heap.nodes[q].boundary}
      objs == Held(heap, q)
  IN /\ \A i \in 1 .. Len(objs) : \A b \in bs : Inside(b, objs[i].pos)
     /\ QT_IsLeaf(heap, q)
          \/ \A i \in 1 .. 4 : SubtreeInside(heap.nodes[q].branches[i], bs)

C19_ObjectsInsideBoundary ==
  /\ \A q \in LiveNodes :
       \A i \in 1 .. Len(Held(heap, q)) :
         Inside(heap.nodes[q].boundary, Held(heap, q)[i].pos)
  /\ tree # NULL => SubtreeInside(tree, {})

(* objects sit in a leaf on the deepest level, one of them on an edge of   *)
(* that leaf, and in the buffer of the root as well                        *)
C19_Witness ==
  /\ tree # NULL
  /\ heap.nodes[tree].obj_count >= 1
  /\ \E q \in LiveNodes :
       /\ heap.nodes[q].depth = QT_MAX_DEPTH + 1
       /\ heap.nodes[q].obj_count >= 1
       /\ \E i \in 1 .. Len(Held(heap, q)) :
            Held(heap, q)[i].pos.x
              = heap.nodes[q].boundary.pos.x + heap.nodes[q].boundary.half_dim.x

(***************************************************************************)
(* C20: the library takes no lock.  A QT_Query that runs while a QT_Insert *)
(* subdivides the same node can read the node's buffer before it is        *)
(* cleared and then the branches that already hold the copies, returning   *)
(* an object twice, or read the buffer after it was released (the state    *)
(* C20_Witness describes).  When the callers let no query run while an     *)
(* insertion is in flight, no such state is reachable: the query reads no  *)
(* released buffer and no null buffer and returns every stored object      *)
(* once, as it was before the insertion or after it; and the statement     *)
(* groups of the insertion, run one by one, build the heap of the single   *)
(* call.                                                                   *)
(***************************************************************************)
ReturnedTwice ==
  \E i, j \in 1 .. run.qry.res.resultCount :
    i # j /\ run.qry.res.resultArray[i] = run.qry.res.resultArray[j]

C20_SerialisedCallersAreSafe ==
  /\ run.locked =>
       /\ ~(InsertRunning /\ QueryRunning)
       /\ ~run.qry.released
       /\ ~run.qry.null_read
       /\ ~ReturnedTwice
       /\ run.qry.pc = "done" =>
            /\ run.qry.ret
            /\ \/ BagOf(run.qry.res.resultArray)
                    = BagOf(SubSeq(Offered, 1, Configs[cfg].capacity))
               \/ /\ run.ins.pc = "done"
                  /\ BagOf(run.qry.res.resultArray) = BagOf(Offered)
  /\ run.ins.pc = "done" =>
       LET r == QT_Insert(run.start, tree, run.ins.obj)
       IN /\ heap.nodes = r.h.nodes
          /\ heap.bufs = r.h.bufs
          /\ heap.next = r.h.next
          /\ heap.faults = r.h.faults
          /\ run.ins.ret = r.ret

(* no lock: the query read an object from the root's buffer, the insertion *)
(* pushed the objects down and released the buffer, the query read the     *)
(* released buffer and then found the copies in the branches               *)
C20_Witness ==
  /\ ~run.locked
  /\ run.qry.pc = "done"
  /\ run.ins.pc = "done"
  /\ run.qry.released
  /\ ReturnedTwice

====
